---- MODULE Spec2Model ----
(***************************************************************************)
(* Model of the automotive data pipeline:                                  *)
(*   - the Glue job's Redshift upsert (glue_vehicle_sales_etl.py),          *)
(*   - the Lambda that forwards warehouse records to Segment               *)
(*     (lambda_redshift_to_segment.py),                                     *)
(*   - the daily SFTP-to-S3 ingestion (s3_upload_automation.py).            *)
(* The programs run independently; each has its own specification          *)
(* (MergeSpec, DeliverySpec, IngestSpec) over the shared variable list;    *)
(* RaceSpec runs the tracker commit of two concurrent Lambda invocations.  *)
(***************************************************************************)
EXTENDS Bags, FiniteSets, Integers, Sequences, TLC

VARIABLES
    \* ---- warehouse merge (Glue job) ----
    target,        \* source_data.vehicle_sales: a bag of rows
    tempExists,    \* does source_data.vehicle_sales_temp exist
    temp,          \* source_data.vehicle_sales_temp: a bag of rows
    frame,         \* vehicle_sales_typed: the batch of the current job
    mpc,           \* position of the Glue job
    snapTarget,    \* target at BEGIN (restored by a rollback)
    snapTemp,      \* staging table at BEGIN (restored by a rollback)
    repeat,        \* history: this job merges the batch the previous job committed
    retry,         \* history: this job merges the batch whose merge was rolled back
    \* ---- delivery (Lambda) ----
    view,                 \* marketing.validated_vehicle_sales within the date range
    s3obj,                \* the object processed_events/<code>_processed_events.json
    dpc,                  \* position of process_vehicle_purchase_events
    conn,                 \* self.conn is an open connection
    batch_size,           \* parameter of the run
    events,               \* the list returned by get_vehicle_sales_events
    i,                    \* start of the current batch (0-based)
    j,                    \* offset of the current record in the batch
    successful_count,
    failed_count,
    processed_event_ids,  \* deal numbers appended after a successful send
    statusCode,           \* statusCode of the last response (0: none)
    \* history of the delivery runs
    run,                  \* number of runs started
    queried,              \* get_vehicle_sales_events returned in this run
    processed_events,     \* the set the query of this run excluded
    storedAtStart,        \* the persisted set when this run started
    log,                  \* this run: one entry per record handled by the loop
    committed,            \* this run wrote the persisted object
    crashed,              \* this run was killed before it returned
    closed,               \* this run called close() on its connection
    opened,               \* this run opened a connection
    reads,                \* this run: calls of get_processed_events
    writes,               \* this run: calls of mark_events_processed
    prevRun,              \* crashed/log of the run before this one
    everOk,               \* records for which send_event_to_segment ever returned True
    \* ---- two concurrent invocations committing to the tracker ----
    cpc,                  \* position of each invocation in its commit
    published,            \* processed_event_ids of each invocation
    readBack,               \* the set each invocation read back before its write
    \* ---- ingestion (process_daily_exports) ----
    ipc,                  \* position of process_daily_exports
    tableIdx,                  \* index in required_tables of the next table
    listing,              \* what listdir/stat returned for the table being handled
    listOk,               \* listdir and stat raised nothing for the table last listed
    latest_file,          \* the file chosen for the table last listed
    downloaded_files,
    decrypted_files,
    pos,                  \* index of the next file in the decrypt / upload loop
    successful_uploads,   \* the keys upload_to_s3 returns
    triggered,            \* start_job_run was called
    result,               \* what process_daily_exports returned
    \* history of the ingestion run
    stage,                \* how far each table got
    decryptFailed,        \* files whose decryption did not succeed
    uploadCalls,          \* files handed to s3_client.upload_file
    bucket,               \* the keys of the objects in the staging bucket
    ingestRun,            \* number of the ingestion run
    prevBucket,           \* bucket when the run before this one ended
    prevUploads           \* files the run before this one uploaded

mergeVars == <<target, tempExists, temp, frame, mpc, snapTarget, snapTemp, repeat, retry>>

runVars == <<dpc, conn, batch_size, events, i, j, successful_count, failed_count,
             processed_event_ids, statusCode>>

histVars == <<run, queried, processed_events, storedAtStart, log, committed,
              crashed, closed, opened, reads, writes, prevRun, everOk>>

deliveryVars == <<view, s3obj, runVars, histVars>>

raceVars == <<cpc, published, readBack>>

ingestVars == <<ipc, tableIdx, listing, listOk, latest_file, downloaded_files,
                decrypted_files, pos, successful_uploads, triggered, result,
                stage, decryptFailed, uploadCalls, bucket, ingestRun, prevBucket,
                prevUploads>>

vars == <<mergeVars, deliveryVars, raceVars, ingestVars>>

(***************************************************************************)
(* Warehouse rows.  Only the four columns of the DELETE predicate and one  *)
(* payload column (standing for the other 55) are kept.                    *)
(***************************************************************************)
Null == "NULL"

\* vin and custno are never NULL in a batch (WHERE vin IS NOT NULL AND
\* custno IS NOT NULL).  dealno and rowlastupdatedutc are not filtered:
\* dealno may be NULL, and rowlastupdatedutc is NULL when the string does not
\* cast to a timestamp.
Dealnos    == {Null, "1"}
Custnos    == {"9"}
Vins       == {"V1"}
Timestamps == {Null, "t1", "t2"}
Payloads   == {"a", "b"}

Rows == [dealno : Dealnos, custno : Custnos, vin : Vins,
         rowlastupdatedutc : Timestamps, payload : Payloads]

MaxBatch == 2
MaxRows  == 2

\* The batches a job can be given: bags of at most MaxBatch rows.  Nothing
\* in the job removes duplicate rows (the source is read with recurse=True
\* over all daily partitions and the SELECT has no DISTINCT).
RECURSIVE BatchesOf(_)
BatchesOf(n) ==
    IF n = 0 THEN {EmptyBag}
    ELSE LET P == BatchesOf(n - 1)
         IN  P \cup {b (+) SetToBag({r}) : b \in P, r \in Rows}

Batches == BatchesOf(MaxBatch)

\* SQL '=' : NULL compared with anything is not true.
SqlEq(a, b) == a # Null /\ b # Null /\ a = b

\* The join predicate without its rowlastupdatedutc conjunct.
KeyMatch_NoTimestamp(t, s) ==
    /\ SqlEq(s.dealno, t.dealno)
    /\ SqlEq(s.custno, t.custno)
    /\ SqlEq(s.vin, t.vin)

\* The WHERE clause of the DELETE ... USING (the four-column join predicate).
KeyMatch(t, s) ==
    /\ SqlEq(s.dealno, t.dealno)
    /\ SqlEq(s.custno, t.custno)
    /\ SqlEq(s.vin, t.vin)
    /\ SqlEq(s.rowlastupdatedutc, t.rowlastupdatedutc)

\* A bag restricted to the rows of the set S, each with its copies.
KeepRows(b, S) == [r \in BagToSet(b) \cap S |-> b[r]]

\* DELETE FROM vehicle_sales USING vehicle_sales_temp WHERE <KeyMatch>
DeleteMatching(tgt, stg) ==
    LET Hit(t) == \E s \in BagToSet(stg) : KeyMatch(t, s)
    IN  KeepRows(tgt, {t \in BagToSet(tgt) : ~Hit(t)})

\* INSERT INTO vehicle_sales SELECT * FROM vehicle_sales_temp
InsertAll(tgt, stg) == tgt (+) stg

(***************************************************************************)
(* Delivery records: the columns of marketing.validated_vehicle_sales the   *)
(* delivery logic reads.  None is Python's None / SQL NULL.                 *)
(***************************************************************************)
None == "None"

Rec(d, u, v, p) == [deal_number |-> d, user_id |-> u, vin |-> v, purchase_date |-> p]

\* The rows the view may hold.  Two rows share deal number "1" (one deal,
\* two vehicles); the last three lack a required field, two of them being
\* the newest rows.
Universe ==
    { Rec("1", "u1", "V1", 6),
      Rec("1", "u1", "V2", 5),
      Rec("2", "u2", "V3", 4),
      Rec("3", "u3", "V4", 3),
      Rec("4", None, "V5", 7),
      Rec(None, "u5", "V6", 2),
      Rec("2", "u2", None, 8) }

MaxView == 3
Views == {v \in SUBSET Universe : Cardinality(v) <= MaxView}

\* LIMIT 1000, scaled to the size of the modelled view.
QueryLimit == 2

MaxBatchSize == 2
BatchSizes == 1..MaxBatchSize

MaxRuns == 3

NoMsg == "-"

RECURSIVE SortDesc(_)
\* ORDER BY purchase_date DESC
SortDesc(S) ==
    IF S = {} THEN << >>
    ELSE LET m == CHOOSE r \in S : \A o \in S : o.purchase_date <= r.purchase_date
         IN  <<m>> \o SortDesc(S \ {m})

\* x[:n]
Take(x, n) == IF Len(x) <= n THEN x ELSE SubSeq(x, 1, n)

\* The exclusion clause: none when the loaded set is empty, else
\* AND deal_number NOT IN (...), which is not true for a NULL deal_number.
NotExcluded(r, processed) ==
    \/ processed = {}
    \/ r.deal_number # None /\ r.deal_number \notin processed

\* The SELECT of get_vehicle_sales_events.
QueryView(v, processed) ==
    Take(SortDesc({r \in v : NotExcluded(r, processed)}), QueryLimit)

\* get_processed_events: the stored list as a set; an absent object or a
\* failed read both give the empty set.
get_processed_events(obj, readOk) ==
    IF readOk /\ obj.exists THEN obj.ids ELSE {}

\* Python truthiness of a field value.
Falsy(x) == x \in {None, ""}

\* The None a function returns in place of an event.
NoEvent == [deal_number |-> None, user_id |-> None, vin |-> None, purchase_date |-> 0]

\* clean_and_validate_event with the vin test left out of the condition.
clean_and_validate_event_NoVinTest(r) ==
    IF Falsy(r.deal_number) \/ Falsy(r.user_id)
    THEN NoEvent
    ELSE [deal_number |-> r.deal_number, user_id |-> r.user_id, vin |-> r.vin,
          purchase_date |-> r.purchase_date]

\* clean_and_validate_event: None for a record missing a required field,
\* else the cleaned event.
clean_and_validate_event(r) ==
    IF Falsy(r.deal_number) \/ Falsy(r.user_id) \/ Falsy(r.vin)
    THEN NoEvent
    ELSE [deal_number |-> r.deal_number, user_id |-> r.user_id, vin |-> r.vin,
          purchase_date |-> r.purchase_date]

\* hashlib.md5(...).hexdigest(), taken as collision-free.
MD5(str) == "md5(" \o str \o ")"

\* generate_segment_message_id: "vp_" + 32 hex digits is shorter than the
\* 50 characters kept.
generate_segment_message_id(e) ==
    "vp_" \o MD5("vehicle_purchase_" \o e.deal_number \o "_" \o e.vin)

\* convert_to_segment_track_event, reduced to the envelope fields used here.
convert_to_segment_track_event(e) ==
    [messageId |-> generate_segment_message_id(e), userId |-> e.user_id,
     deal_number |-> e.deal_number, vin |-> e.vin]

Range(x) == {x[k] : k \in 1..Len(x)}

NoRun == [crashed |-> FALSE, writeFailed |-> FALSE, log |-> << >>]

(***************************************************************************)
(* Ingestion: the vendor's files and the choices of download_files,        *)
(* decrypt_files and upload_to_s3.                                         *)
(***************************************************************************)

\* required_tables, three of the ten.
required_tables == <<"Customer", "Vehicle", "VehicleSales">>

MaxDate == 2
MaxMtime == 2
MaxFiles == 2
MaxIngestRuns == 2

\* The date field of a file name that carries no YYYY-MM-DD.
NoDate == 0

\* The names a table directory can hold:
\* <vendor>_<table>_Export_<date>.csv.gpg, the same without .gpg, and names
\* without a date.
FileNames(t) == [table : {t}, date : (1..MaxDate) \cup {NoDate}, ext : {"csv.gpg", "csv"}]

\* What sftp.listdir and sftp.stat return for a table directory: entries in
\* the order of the listing, no name twice.
Listings(t) ==
    UNION {{L \in [1..n -> [name : FileNames(t), st_mtime : 1..MaxMtime]] :
                \A a, b \in 1..n : a # b => L[a].name # L[b].name} :
           n \in 0..MaxFiles}

\* filename.endswith('.csv.gpg')
EndsWithCsvGpg(name) == name.ext = "csv.gpg"

\* Position of a name in the lexicographic order of the names of one
\* directory: dates compare as strings of digits, a letter follows every digit.
LexRank(name) == IF name.date = NoDate THEN MaxDate + 1 ELSE name.date

\* The sort with the order of the key reversed by mistake.
SortByMtime_Ascending(fs) ==
    LET n == Len(fs)
        Rank(a) == 1 + Cardinality({b \in 1..n :
                          \/ fs[b].st_mtime < fs[a].st_mtime
                          \/ fs[b].st_mtime = fs[a].st_mtime /\ b < a})
    IN  [p \in 1..n |-> fs[CHOOSE a \in 1..n : Rank(a) = p]]

\* files_with_attrs.sort(key=lambda x: x[1], reverse=True): list.sort is
\* stable, and stays so under reverse=True, so entries of equal st_mtime
\* keep the order of the listing.
SortByMtime(fs) ==
    LET n == Len(fs)
        Rank(a) == 1 + Cardinality({b \in 1..n :
                          \/ fs[b].st_mtime > fs[a].st_mtime
                          \/ fs[b].st_mtime = fs[a].st_mtime /\ b < a})
    IN  [p \in 1..n |-> fs[CHOOSE a \in 1..n : Rank(a) = p]]

\* No file chosen.
NoFile == [table |-> "", date |-> NoDate, ext |-> ""]

\* file_path.name.replace('.gpg', '')
StripGpg(name) == [name EXCEPT !.ext = "csv"]

\* re.match(r'(\w+)_([A-Za-z]+)_\w+_(\d{4}-\d{2}-\d{2})', file_path.name)
FilenameMatches(name) == name.date # NoDate

\* The key with the partition taken from the day of processing (here the
\* number of the run) instead of the export date of the file name.
S3Key_ByProcessedDate(name) == <<"raw-data", name.table, [run |-> ingestRun], name>>

\* raw-data/<table_name>/year=/month=/day=/<file name>, table_name and the
\* date taken from the file name.
S3Key(name) == <<"raw-data", name.table, name.date, name>>

\* The emptiness tests of the orchestration, never true.
NoFiles_Never(files) == FALSE

\* 'not downloaded_files', 'not decrypted_files', 'not uploaded_files' in
\* process_daily_exports and trigger_glue_etl.
NoFiles(files) == Len(files) = 0

\* decrypt_files with the result appended whatever decryption_result.ok is.
AfterDecrypt_Always(files, path, outcome) == Append(files, path)

\* decrypt_files: the path is appended only when decryption_result.ok.
AfterDecrypt(files, path, outcome) ==
    IF outcome = "ok" THEN Append(files, path) ELSE files

DecryptOutcomes == {"ok", "not_ok", "exception"}

IngestStart ==
    /\ ipc = "idle"
    /\ tableIdx = 1
    /\ listing = << >>
    /\ listOk = FALSE
    /\ latest_file = NoFile
    /\ downloaded_files = << >>
    /\ decrypted_files = << >>
    /\ pos = 1
    /\ successful_uploads = << >>
    /\ triggered = FALSE
    /\ result = "none"
    /\ stage = [t \in Range(required_tables) |-> "pending"]
    /\ decryptFailed = {}
    /\ uploadCalls = {}
    /\ bucket = {}
    /\ ingestRun = 1
    /\ prevBucket = {}
    /\ prevUploads = {}

(***************************************************************************)
(* Two invocations of the Lambda at the commit of the tracker.             *)
(***************************************************************************)

Invocations == {"a", "b"}

MaxPublished == 2

\* The processed_event_ids an invocation can hold after its loop.
PublishedLists == UNION {[1..n -> {"1", "2"}] : n \in 1..MaxPublished}

RaceStart ==
    /\ cpc = [p \in Invocations |-> "idle"]
    /\ published = [p \in Invocations |-> << >>]
    /\ readBack = [p \in Invocations |-> {}]

MergeStart ==
    /\ target = EmptyBag
    /\ tempExists = FALSE
    /\ temp = EmptyBag
    /\ frame = EmptyBag
    /\ mpc = "idle"
    /\ snapTarget = EmptyBag
    /\ snapTemp = EmptyBag
    /\ repeat = FALSE
    /\ retry = FALSE

DeliveryStart ==
    /\ s3obj = [exists |-> FALSE, ids |-> {}]
    /\ dpc = "idle"
    /\ conn = FALSE
    /\ batch_size = 1
    /\ events = << >>
    /\ i = 0
    /\ j = 0
    /\ successful_count = 0
    /\ failed_count = 0
    /\ processed_event_ids = << >>
    /\ statusCode = 0
    /\ run = 0
    /\ queried = FALSE
    /\ processed_events = {}
    /\ storedAtStart = {}
    /\ log = << >>
    /\ committed = FALSE
    /\ crashed = FALSE
    /\ closed = FALSE
    /\ opened = FALSE
    /\ reads = 0
    /\ writes = 0
    /\ prevRun = NoRun
    /\ everOk = {}

MergeInit == MergeStart /\ DeliveryStart /\ view = {} /\ RaceStart /\ IngestStart

DeliveryInit == MergeStart /\ DeliveryStart /\ view \in Views /\ RaceStart /\ IngestStart

IngestInit == MergeStart /\ DeliveryStart /\ view = {} /\ RaceStart /\ IngestStart

RaceInit ==
    /\ MergeStart /\ DeliveryStart /\ view = {} /\ IngestStart
    /\ cpc = [p \in Invocations |-> "published"]
    /\ published \in [Invocations -> PublishedLists]
    /\ readBack = [p \in Invocations |-> {}]

\* The preactions without DROP TABLE IF EXISTS (and so with a CREATE that
\* finds the table of an earlier job): the staging table keeps its rows.
Preactions_NoDrop(B) ==
    /\ mpc \in {"idle", "committed", "failed", "rolledback"}
    /\ BagCardinality(target) + BagCardinality(B) <= MaxRows
    /\ frame' = B
    /\ repeat' = (mpc = "committed" /\ B = frame)
    /\ retry' = (mpc = "rolledback" /\ B = frame)
    /\ tempExists' = TRUE
    /\ snapTarget' = target
    /\ snapTemp' = EmptyBag
    /\ mpc' = "pre"
    /\ UNCHANGED <<target, temp>>
    /\ UNCHANGED <<deliveryVars, raceVars, ingestVars>>

\* A job run starts: the frame is computed and the preactions run
\* (CREATE TABLE IF NOT EXISTS; DROP TABLE IF EXISTS temp; CREATE TABLE temp
\* AS SELECT ... WHERE 1=2).
Preactions(B) ==
    /\ mpc \in {"idle", "committed", "failed", "rolledback"}
    /\ BagCardinality(target) + BagCardinality(B) <= MaxRows
    /\ frame' = B
    /\ repeat' = (mpc = "committed" /\ B = frame)
    /\ retry' = (mpc = "rolledback" /\ B = frame)
    /\ tempExists' = TRUE
    /\ temp' = EmptyBag
    /\ snapTarget' = target
    /\ snapTemp' = EmptyBag
    /\ mpc' = "pre"
    /\ UNCHANGED target
    /\ UNCHANGED <<deliveryVars, raceVars, ingestVars>>

\* The frame is bulk-loaded into dbtable = source_data.vehicle_sales_temp.
BulkLoad ==
    /\ mpc = "pre"
    /\ temp' = temp (+) frame
    /\ mpc' = "loaded"
    /\ UNCHANGED <<target, tempExists, frame, snapTarget, snapTemp, repeat, retry>>
    /\ UNCHANGED <<deliveryVars, raceVars, ingestVars>>

\* BEGIN;
TxnBegin ==
    /\ mpc = "loaded"
    /\ snapTarget' = target
    /\ snapTemp' = temp
    /\ mpc' = "begun"
    /\ UNCHANGED <<target, tempExists, temp, frame, repeat, retry>>
    /\ UNCHANGED <<deliveryVars, raceVars, ingestVars>>

\* DELETE FROM ... USING ... WHERE ...;
TxnDelete ==
    /\ mpc = "begun"
    /\ target' = DeleteMatching(target, temp)
    /\ mpc' = "deleted"
    /\ UNCHANGED <<tempExists, temp, frame, snapTarget, snapTemp, repeat, retry>>
    /\ UNCHANGED <<deliveryVars, raceVars, ingestVars>>

\* INSERT INTO ... SELECT * FROM temp;
TxnInsert ==
    /\ mpc = "deleted"
    /\ target' = InsertAll(target, temp)
    /\ mpc' = "inserted"
    /\ UNCHANGED <<tempExists, temp, frame, snapTarget, snapTemp, repeat, retry>>
    /\ UNCHANGED <<deliveryVars, raceVars, ingestVars>>

\* DROP TABLE temp;
TxnDrop ==
    /\ mpc = "inserted"
    /\ tempExists' = FALSE
    /\ temp' = EmptyBag
    /\ mpc' = "dropped"
    /\ UNCHANGED <<target, frame, snapTarget, snapTemp, repeat, retry>>
    /\ UNCHANGED <<deliveryVars, raceVars, ingestVars>>

\* END;  the transaction commits.
TxnEnd ==
    /\ mpc = "dropped"
    /\ snapTemp' = EmptyBag
    /\ mpc' = "committed"
    /\ UNCHANGED <<target, tempExists, temp, frame, snapTarget, repeat, retry>>
    /\ UNCHANGED <<deliveryVars, raceVars, ingestVars>>

\* The job fails (or is killed) outside the transaction: after the
\* preactions or after the bulk load.  Nothing cleans up; the staging table
\* stays as it is.
JobFail ==
    /\ mpc \in {"pre", "loaded"}
    /\ mpc' = "failed"
    /\ UNCHANGED <<target, tempExists, temp, frame, snapTarget, snapTemp, repeat, retry>>
    /\ UNCHANGED <<deliveryVars, raceVars, ingestVars>>

\* The failure of a statement when BEGIN/END do not enclose the statements
\* (each statement commits on its own): what was done stays done.
TxnAbort_Autocommit ==
    /\ mpc \in {"begun", "deleted", "inserted", "dropped"}
    /\ snapTemp' = EmptyBag
    /\ mpc' = "rolledback"
    /\ UNCHANGED <<target, tempExists, temp, frame, snapTarget, repeat, retry>>
    /\ UNCHANGED <<deliveryVars, raceVars, ingestVars>>

\* A statement of the transaction fails, or the session ends before END:
\* the warehouse rolls the open transaction back.
TxnAbort ==
    /\ mpc \in {"begun", "deleted", "inserted", "dropped"}
    /\ target' = snapTarget
    /\ tempExists' = TRUE
    /\ temp' = snapTemp
    /\ snapTemp' = EmptyBag
    /\ mpc' = "rolledback"
    /\ UNCHANGED <<frame, snapTarget, repeat, retry>>
    /\ UNCHANGED <<deliveryVars, raceVars, ingestVars>>

MergeNext ==
    \/ \E B \in Batches : Preactions(B)
    \/ BulkLoad
    \/ TxnBegin
    \/ TxnDelete
    \/ TxnInsert
    \/ TxnDrop
    \/ TxnEnd
    \/ JobFail
    \/ TxnAbort

MergeSpec == MergeInit /\ [][MergeNext]_vars

\* The job runs with their progress: a job run that has started executes
\* its next statement unless it fails.  Nothing obliges a job run to start:
\* trigger_glue_etl calls start_job_run once per ingestion run and the job
\* script does not start itself again.
MergeFairSpec ==
    /\ MergeInit
    /\ [][MergeNext]_vars
    /\ WF_vars(BulkLoad)
    /\ WF_vars(TxnBegin)
    /\ WF_vars(TxnDelete)
    /\ WF_vars(TxnInsert)
    /\ WF_vars(TxnDrop)
    /\ WF_vars(TxnEnd)

(***************************************************************************)
(* The delivery run: process_vehicle_purchase_events.                      *)
(***************************************************************************)

\* What a run that starts remembers of the run before it.
Finished == [crashed |-> crashed, writeFailed |-> (writes = 1 /\ ~committed), log |-> log]

\* The locals of a fresh invocation.
FreshRun(bs) ==
    /\ run' = run + 1
    /\ batch_size' = bs
    /\ events' = << >>
    /\ i' = 0
    /\ j' = 0
    /\ successful_count' = 0
    /\ failed_count' = 0
    /\ processed_event_ids' = << >>
    /\ queried' = FALSE
    /\ processed_events' = {}
    /\ storedAtStart' = s3obj.ids
    /\ log' = << >>
    /\ committed' = FALSE
    /\ crashed' = FALSE
    /\ closed' = FALSE
    /\ reads' = 0
    /\ writes' = 0
    /\ prevRun' = (IF run = 0 THEN NoRun ELSE Finished)

\* lambda_handler invokes the processor and connect_to_redshift succeeds.
StartRun(bs) ==
    /\ dpc \in {"idle", "done"}
    /\ run < MaxRuns
    /\ FreshRun(bs)
    /\ conn' = TRUE
    /\ opened' = TRUE
    /\ statusCode' = 0
    /\ dpc' = "connected"
    /\ UNCHANGED <<view, s3obj, everOk>>
    /\ UNCHANGED <<mergeVars, raceVars, ingestVars>>

\* connect_to_redshift returns False: the exception is caught, 500 is
\* returned; close_redshift_connection finds no connection.
ConnectFail(bs) ==
    /\ dpc \in {"idle", "done"}
    /\ run < MaxRuns
    /\ FreshRun(bs)
    /\ conn' = FALSE
    /\ opened' = FALSE
    /\ statusCode' = 500
    /\ dpc' = "done"
    /\ UNCHANGED <<view, s3obj, everOk>>
    /\ UNCHANGED <<mergeVars, raceVars, ingestVars>>

\* get_vehicle_sales_events returns.  An empty result ends the run with
\* 200 and 'No new events to process'.
QueryEvents(readOk) ==
    /\ dpc = "connected"
    /\ LET processed == get_processed_events(s3obj, readOk)
           records == QueryView(view, processed)
       IN  /\ processed_events' = processed
           /\ events' = records
           /\ queried' = TRUE
           /\ reads' = reads + 1
           /\ IF records = << >>
              THEN /\ statusCode' = 200
                   /\ conn' = FALSE
                   /\ closed' = TRUE
                   /\ dpc' = "done"
              ELSE /\ dpc' = "loop"
                   /\ UNCHANGED <<statusCode, conn, closed>>
    /\ UNCHANGED <<view, s3obj, batch_size, i, j, successful_count, failed_count,
                   processed_event_ids, run, storedAtStart, log, committed,
                   crashed, opened, writes, prevRun, everOk>>
    /\ UNCHANGED <<mergeVars, raceVars, ingestVars>>

\* The query failure without the finally clause: 500 is returned and the
\* connection stays open.
QueryFail_NoClose ==
    /\ dpc = "connected"
    /\ reads' = reads + 1
    /\ statusCode' = 500
    /\ dpc' = "done"
    /\ UNCHANGED <<view, s3obj, conn, batch_size, events, i, j, successful_count,
                   failed_count, processed_event_ids, run, queried,
                   processed_events, storedAtStart, log, committed, crashed,
                   closed, opened, writes, prevRun, everOk>>
    /\ UNCHANGED <<mergeVars, raceVars, ingestVars>>

\* cursor.execute raises (get_processed_events has run before it): the
\* exception reaches the outer handler, 500.
QueryFail ==
    /\ dpc = "connected"
    /\ reads' = reads + 1
    /\ statusCode' = 500
    /\ conn' = FALSE
    /\ closed' = TRUE
    /\ dpc' = "done"
    /\ UNCHANGED <<view, s3obj, batch_size, events, i, j, successful_count,
                   failed_count, processed_event_ids, run, queried,
                   processed_events, storedAtStart, log, committed, crashed,
                   opened, writes, prevRun, everOk>>
    /\ UNCHANGED <<mergeVars, raceVars, ingestVars>>

\* The record the loop is at, and the length of its batch events[i:i+batch_size].
CurrentRecord == events[i + j + 1]
BatchLen == IF i + batch_size <= Len(events) THEN batch_size ELSE Len(events) - i

\* The loop with the next batch starting one record too far.
Advance_SkipAfterBatch ==
    IF j + 1 < BatchLen
    THEN /\ j' = j + 1
         /\ i' = i
    ELSE /\ j' = 0
         /\ i' = i + batch_size + 1

\* Advance the inner loop, and the outer loop when the batch is exhausted.
Advance ==
    IF j + 1 < BatchLen
    THEN /\ j' = j + 1
         /\ i' = i
    ELSE /\ j' = 0
         /\ i' = i + batch_size

\* send_event_to_segment: True only for a 200 response.
send_event_to_segment(response) == response = "200"

Responses == {"200", "500", "exception"}

\* The iteration with the record that fails validation passed over without
\* being counted.
ProcessEvent_InvalidUncounted(response) ==
    /\ dpc = "loop"
    /\ i < Len(events)
    /\ LET record == CurrentRecord
           cleaned_event == clean_and_validate_event(record)
       IN  IF cleaned_event = NoEvent
           THEN /\ log' = Append(log, [rec |-> record, messageId |-> NoMsg,
                                       outcome |-> "invalid"])
                /\ UNCHANGED <<successful_count, failed_count, processed_event_ids,
                               everOk>>
           ELSE LET segment_event == convert_to_segment_track_event(cleaned_event)
                IN  IF send_event_to_segment(response)
                    THEN /\ successful_count' = successful_count + 1
                         /\ processed_event_ids' =
                                Append(processed_event_ids, cleaned_event.deal_number)
                         /\ log' = Append(log, [rec |-> record,
                                                messageId |-> segment_event.messageId,
                                                outcome |-> "sent_ok"])
                         /\ everOk' = everOk \cup {record}
                         /\ UNCHANGED failed_count
                    ELSE /\ failed_count' = failed_count + 1
                         /\ log' = Append(log, [rec |-> record,
                                                messageId |-> segment_event.messageId,
                                                outcome |-> "sent_fail"])
                         /\ UNCHANGED <<successful_count, processed_event_ids, everOk>>
    /\ Advance
    /\ UNCHANGED <<view, s3obj, dpc, conn, batch_size, events, statusCode, run,
                   queried, processed_events, storedAtStart, committed, crashed,
                   closed, opened, reads, writes, prevRun>>
    /\ UNCHANGED <<mergeVars, raceVars, ingestVars>>

\* One iteration of 'for event_record in batch'.
ProcessEvent(response) ==
    /\ dpc = "loop"
    /\ i < Len(events)
    /\ LET record == CurrentRecord
           cleaned_event == clean_and_validate_event(record)
       IN  IF cleaned_event = NoEvent
           THEN /\ failed_count' = failed_count + 1
                /\ log' = Append(log, [rec |-> record, messageId |-> NoMsg,
                                       outcome |-> "invalid"])
                /\ UNCHANGED <<successful_count, processed_event_ids, everOk>>
           ELSE LET segment_event == convert_to_segment_track_event(cleaned_event)
                IN  IF send_event_to_segment(response)
                    THEN /\ successful_count' = successful_count + 1
                         /\ processed_event_ids' =
                                Append(processed_event_ids, cleaned_event.deal_number)
                         /\ log' = Append(log, [rec |-> record,
                                                messageId |-> segment_event.messageId,
                                                outcome |-> "sent_ok"])
                         /\ everOk' = everOk \cup {record}
                         /\ UNCHANGED failed_count
                    ELSE /\ failed_count' = failed_count + 1
                         /\ log' = Append(log, [rec |-> record,
                                                messageId |-> segment_event.messageId,
                                                outcome |-> "sent_fail"])
                         /\ UNCHANGED <<successful_count, processed_event_ids, everOk>>
    /\ Advance
    /\ UNCHANGED <<view, s3obj, dpc, conn, batch_size, events, statusCode, run,
                   queried, processed_events, storedAtStart, committed, crashed,
                   closed, opened, reads, writes, prevRun>>
    /\ UNCHANGED <<mergeVars, raceVars, ingestVars>>

\* mark_events_processed(event_ids, processed_events): update the set that
\* was passed in and put it; a failed put is logged and ignored.
mark_events_processed(event_ids, loaded, obj, writeOk) ==
    IF writeOk THEN [exists |-> TRUE, ids |-> loaded \cup Range(event_ids)]
    ELSE obj

\* After the loop: the tracker update (only when something was sent), the
\* 200 response, and the finally clause closing the connection.
CommitTracker(readOk, writeOk) ==
    /\ dpc = "loop"
    /\ i >= Len(events)
    /\ IF processed_event_ids # << >>
       THEN LET processed_events_set == get_processed_events(s3obj, readOk)
            IN  /\ s3obj' = mark_events_processed(processed_event_ids,
                                                  processed_events_set, s3obj, writeOk)
                /\ committed' = writeOk
                /\ reads' = reads + 1
                /\ writes' = writes + 1
       ELSE UNCHANGED <<s3obj, committed, reads, writes>>
    /\ statusCode' = 200
    /\ conn' = FALSE
    /\ closed' = TRUE
    /\ dpc' = "done"
    /\ UNCHANGED <<view, batch_size, events, i, j, successful_count, failed_count,
                   processed_event_ids, run, queried, processed_events,
                   storedAtStart, log, crashed, opened, prevRun, everOk>>
    /\ UNCHANGED <<mergeVars, raceVars, ingestVars>>

\* The invocation is killed (timeout, out of memory) before it returns:
\* nothing after the current statement runs.
Crash ==
    /\ dpc \in {"connected", "loop"}
    /\ crashed' = TRUE
    /\ conn' = FALSE
    /\ dpc' = "done"
    /\ UNCHANGED <<view, s3obj, batch_size, events, i, j, successful_count,
                   failed_count, processed_event_ids, statusCode, run, queried,
                   processed_events, storedAtStart, log, committed, closed,
                   opened, reads, writes, prevRun, everOk>>
    /\ UNCHANGED <<mergeVars, raceVars, ingestVars>>

DeliveryNext ==
    \/ \E bs \in BatchSizes : StartRun(bs)
    \/ \E bs \in BatchSizes : ConnectFail(bs)
    \/ \E readOk \in BOOLEAN : QueryEvents(readOk)
    \/ QueryFail
    \/ \E response \in Responses : ProcessEvent(response)
    \/ \E readOk \in BOOLEAN, writeOk \in BOOLEAN : CommitTracker(readOk, writeOk)
    \/ Crash

DeliverySpec == DeliveryInit /\ [][DeliveryNext]_vars

(***************************************************************************)
(* The tracker commit of two concurrent invocations (lines 557-560 of      *)
(* process_vehicle_purchase_events, run by each).  The read and the write  *)
(* are two requests to S3; nothing holds the object between them.          *)
(***************************************************************************)

\* processed_events_set = self.get_processed_events(dealership_code)
CommitRead(p, readOk) ==
    /\ cpc[p] = "published"
    /\ readBack' = [readBack EXCEPT ![p] = get_processed_events(s3obj, readOk)]
    /\ cpc' = [cpc EXCEPT ![p] = "read"]
    /\ UNCHANGED <<published, s3obj, view, runVars, histVars>>
    /\ UNCHANGED <<mergeVars, ingestVars>>

\* self.mark_events_processed(processed_event_ids, processed_events_set)
CommitWrite(p, writeOk) ==
    /\ cpc[p] = "read"
    /\ s3obj' = mark_events_processed(published[p], readBack[p], s3obj, writeOk)
    /\ cpc' = [cpc EXCEPT ![p] = IF writeOk THEN "committed" ELSE "commit_failed"]
    /\ UNCHANGED <<published, readBack, view, runVars, histVars>>
    /\ UNCHANGED <<mergeVars, ingestVars>>

\* A later invocation reaches its commit with its own list.
NextInvocation(p, ids) ==
    /\ cpc[p] \in {"committed", "commit_failed"}
    /\ published' = [published EXCEPT ![p] = ids]
    /\ readBack' = [readBack EXCEPT ![p] = {}]
    /\ cpc' = [cpc EXCEPT ![p] = "published"]
    /\ UNCHANGED <<s3obj, view, runVars, histVars>>
    /\ UNCHANGED <<mergeVars, ingestVars>>

RaceNext ==
    \/ \E p \in Invocations, readOk \in BOOLEAN : CommitRead(p, readOk)
    \/ \E p \in Invocations, writeOk \in BOOLEAN : CommitWrite(p, writeOk)
    \/ \E p \in Invocations, ids \in PublishedLists : NextInvocation(p, ids)

RaceSpec == RaceInit /\ [][RaceNext]_vars

(***************************************************************************)
(* The ingestion run: process_daily_exports.                               *)
(***************************************************************************)

\* download_files: connect_sftp returns a client.
ConnectSftp ==
    /\ ipc = "idle"
    /\ ipc' = "download"
    /\ UNCHANGED <<tableIdx, listing, listOk, latest_file, downloaded_files,
                   decrypted_files, pos, successful_uploads, triggered, result,
                   stage, decryptFailed, uploadCalls>>
    /\ UNCHANGED <<bucket, ingestRun, prevBucket, prevUploads>>
    /\ UNCHANGED <<mergeVars, deliveryVars, raceVars>>

\* connect_sftp raises: the exception leaves download_files and is caught
\* by process_daily_exports, which returns False.
ConnectSftpFail ==
    /\ ipc = "idle"
    /\ result' = "False"
    /\ ipc' = "done"
    /\ UNCHANGED <<tableIdx, listing, listOk, latest_file, downloaded_files,
                   decrypted_files, pos, successful_uploads, triggered, stage,
                   decryptFailed, uploadCalls>>
    /\ UNCHANGED <<bucket, ingestRun, prevBucket, prevUploads>>
    /\ UNCHANGED <<mergeVars, deliveryVars, raceVars>>

\* The listings the directory of the table the loop is at can return.
CurrentListings ==
    IF ipc = "download" /\ tableIdx <= Len(required_tables)
    THEN Listings(required_tables[tableIdx])
    ELSE {}

\* 'for table in table_list', first half of an iteration: the directory is
\* listed, the .csv.gpg entries are kept with their st_mtime, sorted, and the
\* first is chosen.  L is what the directory holds; listdirOk is false when
\* listdir or stat raises (the except clauses log and continue).
ListTable(L, listdirOk) ==
    /\ ipc = "download"
    /\ tableIdx <= Len(required_tables)
    /\ LET table == required_tables[tableIdx]
           files_with_attrs == SelectSeq(L, LAMBDA e : EndsWithCsvGpg(e.name))
       IN  IF ~listdirOk
           THEN /\ listing' = << >>
                /\ latest_file' = NoFile
                /\ stage' = [stage EXCEPT ![table] = "list_failed"]
                /\ tableIdx' = tableIdx + 1
                /\ UNCHANGED ipc
           ELSE /\ listing' = L
                /\ latest_file' = IF files_with_attrs = << >> THEN NoFile
                                  ELSE SortByMtime(files_with_attrs)[1].name
                /\ stage' = [stage EXCEPT ![table] =
                                 IF files_with_attrs = << >> THEN "skipped" ELSE "chosen"]
                /\ ipc' = "listed"
                /\ UNCHANGED tableIdx
    /\ listOk' = listdirOk
    /\ UNCHANGED <<downloaded_files, decrypted_files, pos, successful_uploads,
                   triggered, result, decryptFailed, uploadCalls>>
    /\ UNCHANGED <<bucket, ingestRun, prevBucket, prevUploads>>
    /\ UNCHANGED <<mergeVars, deliveryVars, raceVars>>

\* 'No encrypted files found for <table>': continue.
SkipTable ==
    /\ ipc = "listed"
    /\ latest_file = NoFile
    /\ listing' = << >>
    /\ tableIdx' = tableIdx + 1
    /\ ipc' = "download"
    /\ UNCHANGED <<listOk, latest_file, downloaded_files, decrypted_files, pos,
                   successful_uploads, triggered, result, stage, decryptFailed,
                   uploadCalls>>
    /\ UNCHANGED <<bucket, ingestRun, prevBucket, prevUploads>>
    /\ UNCHANGED <<mergeVars, deliveryVars, raceVars>>

\* Second half: sftp.get(remote_path, local_path) and the append; a get that
\* raises is logged and the loop continues.
FetchLatest(getOk) ==
    /\ ipc = "listed"
    /\ latest_file # NoFile
    /\ IF getOk
       THEN /\ downloaded_files' = Append(downloaded_files, latest_file)
            /\ stage' = [stage EXCEPT ![latest_file.table] = "downloaded"]
       ELSE /\ stage' = [stage EXCEPT ![latest_file.table] = "get_failed"]
            /\ UNCHANGED downloaded_files
    /\ listing' = << >>
    /\ tableIdx' = tableIdx + 1
    /\ ipc' = "download"
    /\ UNCHANGED <<listOk, latest_file, decrypted_files, pos, successful_uploads,
                   triggered, result, decryptFailed, uploadCalls>>
    /\ UNCHANGED <<bucket, ingestRun, prevBucket, prevUploads>>
    /\ UNCHANGED <<mergeVars, deliveryVars, raceVars>>

\* The loop is over: the connection is closed, download_files returns, and
\* process_daily_exports returns False when nothing was downloaded.
DownloadDone ==
    /\ ipc = "download"
    /\ tableIdx > Len(required_tables)
    /\ listing' = << >>
    /\ listOk' = FALSE
    /\ latest_file' = NoFile
    /\ IF NoFiles(downloaded_files)
       THEN /\ result' = "False"
            /\ ipc' = "done"
       ELSE /\ ipc' = "decrypt"
            /\ UNCHANGED result
    /\ pos' = 1
    /\ UNCHANGED <<tableIdx, downloaded_files, decrypted_files, successful_uploads,
                   triggered, stage, decryptFailed, uploadCalls>>
    /\ UNCHANGED <<bucket, ingestRun, prevBucket, prevUploads>>
    /\ UNCHANGED <<mergeVars, deliveryVars, raceVars>>

\* The decryption loop without its try/except: an exception raised for one
\* file leaves decrypt_files and ends the run in the handler of
\* process_daily_exports.
DecryptFile_Raises(outcome) ==
    /\ ipc = "decrypt"
    /\ pos <= Len(downloaded_files)
    /\ LET encrypted_file == downloaded_files[pos]
           decrypted_path == StripGpg(encrypted_file)
       IN  /\ decrypted_files' = AfterDecrypt(decrypted_files, decrypted_path, outcome)
           /\ decryptFailed' = IF outcome = "ok" THEN decryptFailed
                               ELSE decryptFailed \cup {decrypted_path}
           /\ stage' = [stage EXCEPT ![encrypted_file.table] =
                            IF outcome = "ok" THEN "decrypted" ELSE "decrypt_failed"]
    /\ pos' = pos + 1
    /\ IF outcome = "exception"
       THEN /\ result' = "False"
            /\ ipc' = "done"
       ELSE UNCHANGED <<ipc, result>>
    /\ UNCHANGED <<tableIdx, listing, listOk, latest_file, downloaded_files,
                   successful_uploads, triggered, uploadCalls>>
    /\ UNCHANGED <<bucket, ingestRun, prevBucket, prevUploads>>
    /\ UNCHANGED <<mergeVars, deliveryVars, raceVars>>

\* One iteration of 'for encrypted_file in encrypted_file_paths'.
DecryptFile(outcome) ==
    /\ ipc = "decrypt"
    /\ pos <= Len(downloaded_files)
    /\ LET encrypted_file == downloaded_files[pos]
           decrypted_path == StripGpg(encrypted_file)
       IN  /\ decrypted_files' = AfterDecrypt(decrypted_files, decrypted_path, outcome)
           /\ decryptFailed' = IF outcome = "ok" THEN decryptFailed
                               ELSE decryptFailed \cup {decrypted_path}
           /\ stage' = [stage EXCEPT ![encrypted_file.table] =
                            IF outcome = "ok" THEN "decrypted" ELSE "decrypt_failed"]
    /\ pos' = pos + 1
    /\ UNCHANGED <<ipc, tableIdx, listing, listOk, latest_file, downloaded_files,
                   successful_uploads, triggered, result, uploadCalls>>
    /\ UNCHANGED <<bucket, ingestRun, prevBucket, prevUploads>>
    /\ UNCHANGED <<mergeVars, deliveryVars, raceVars>>

\* decrypt_files returns; process_daily_exports returns False when nothing
\* was decrypted.
DecryptDone ==
    /\ ipc = "decrypt"
    /\ pos > Len(downloaded_files)
    /\ IF NoFiles(decrypted_files)
       THEN /\ result' = "False"
            /\ ipc' = "done"
       ELSE /\ ipc' = "upload"
            /\ UNCHANGED result
    /\ pos' = 1
    /\ UNCHANGED <<tableIdx, listing, listOk, latest_file, downloaded_files,
                   decrypted_files, successful_uploads, triggered, stage,
                   decryptFailed, uploadCalls>>
    /\ UNCHANGED <<bucket, ingestRun, prevBucket, prevUploads>>
    /\ UNCHANGED <<mergeVars, deliveryVars, raceVars>>

\* One iteration of 'for file_path in decrypted_file_paths': a name the
\* pattern does not match is skipped, an upload that raises is logged.
UploadFile(uploadOk) ==
    /\ ipc = "upload"
    /\ pos <= Len(decrypted_files)
    /\ LET file_path == decrypted_files[pos]
       IN  IF ~FilenameMatches(file_path)
           THEN /\ stage' = [stage EXCEPT ![file_path.table] = "unmatched"]
                /\ UNCHANGED <<uploadCalls, successful_uploads, bucket>>
           ELSE /\ uploadCalls' = uploadCalls \cup {file_path}
                /\ IF uploadOk
                   THEN /\ successful_uploads' =
                               Append(successful_uploads, S3Key(file_path))
                        /\ bucket' = bucket \cup {S3Key(file_path)}
                        /\ stage' = [stage EXCEPT ![file_path.table] = "staged"]
                   ELSE /\ stage' = [stage EXCEPT ![file_path.table] = "upload_failed"]
                        /\ UNCHANGED <<successful_uploads, bucket>>
    /\ pos' = pos + 1
    /\ UNCHANGED <<ipc, tableIdx, listing, listOk, latest_file, downloaded_files,
                   decrypted_files, triggered, result, decryptFailed>>
    /\ UNCHANGED <<ingestRun, prevBucket, prevUploads>>
    /\ UNCHANGED <<mergeVars, deliveryVars, raceVars>>

\* upload_to_s3 returns; trigger_glue_etl starts the job unless the list of
\* uploads is empty (a failure to start it is logged); the local files are
\* removed; process_daily_exports returns True.
TriggerAndReturn ==
    /\ ipc = "upload"
    /\ pos > Len(decrypted_files)
    /\ triggered' = ~NoFiles(successful_uploads)
    /\ result' = "True"
    /\ ipc' = "done"
    /\ UNCHANGED <<tableIdx, listing, listOk, latest_file, downloaded_files,
                   decrypted_files, pos, successful_uploads, stage, decryptFailed,
                   uploadCalls>>
    /\ UNCHANGED <<bucket, ingestRun, prevBucket, prevUploads>>
    /\ UNCHANGED <<mergeVars, deliveryVars, raceVars>>

\* process_daily_exports runs again while the vendor directories hold the
\* same exports: the same files are downloaded and decrypted, and the run
\* comes to upload_to_s3 with them.
RerunSameExports ==
    /\ ipc = "done"
    /\ result = "True"
    /\ ingestRun < MaxIngestRuns
    /\ ingestRun' = ingestRun + 1
    /\ prevBucket' = bucket
    /\ prevUploads' = {f \in Range(decrypted_files) : stage[f.table] = "staged"}
    /\ stage' = [t \in Range(required_tables) |->
                    IF \E f \in Range(decrypted_files) : f.table = t
                    THEN "decrypted" ELSE stage[t]]
    /\ uploadCalls' = {}
    /\ successful_uploads' = << >>
    /\ triggered' = FALSE
    /\ result' = "none"
    /\ pos' = 1
    /\ ipc' = "upload"
    /\ UNCHANGED <<tableIdx, listing, listOk, latest_file, downloaded_files,
                   decrypted_files, decryptFailed, bucket>>
    /\ UNCHANGED <<mergeVars, deliveryVars, raceVars>>

IngestNext ==
    \/ ConnectSftp
    \/ ConnectSftpFail
    \/ \E L \in CurrentListings, listdirOk \in BOOLEAN : ListTable(L, listdirOk)
    \/ SkipTable
    \/ \E getOk \in BOOLEAN : FetchLatest(getOk)
    \/ DownloadDone
    \/ \E outcome \in DecryptOutcomes : DecryptFile(outcome)
    \/ DecryptDone
    \/ \E uploadOk \in BOOLEAN : UploadFile(uploadOk)
    \/ TriggerAndReturn
    \/ RerunSameExports

IngestSpec == IngestInit /\ [][IngestNext]_vars

(***************************************************************************)
(* Properties of the warehouse merge (MergeSpec).                          *)
(***************************************************************************)

\* The composite key of a row, as a value.
KeyOf(r) == <<r.dealno, r.custno, r.vin, r.rowlastupdatedutc>>

\* Number of rows of a table carrying key k.
RowsWithKey(tbl, k) ==
    BagCardinality(KeepRows(tbl, {r \in BagToSet(tbl) : KeyOf(r) = k}))

\* Uncommitted changes of the open transaction are in target.
InTxn == mpc \in {"deleted", "inserted", "dropped"}

\* (T minus the rows whose key is the key of a row of B) union B.
UpsertOf(T, B) ==
    LET Unmatched(t) == \A s \in BagToSet(B) : KeyOf(s) # KeyOf(t)
    IN  KeepRows(T, {t \in BagToSet(T) : Unmatched(t)}) (+) B

\* C1: in every state visible outside a transaction the target table holds
\* at most one row for each composite key (dealno, custno, vin,
\* rowlastupdatedutc).
C1_OneRowPerKey ==
    ~InTxn => \A r \in BagToSet(target) : RowsWithKey(target, KeyOf(r)) <= 1

\* C2: after a merge that commits, the target table equals (T minus the rows
\* of T whose composite key equals the key of some row of B) union B, T being
\* the table before the merge and B the batch.
C2_MergeResult ==
    mpc = "committed" => target = UpsertOf(snapTarget, frame)

\* C3: merging the batch the previous merge committed leaves the target
\* table, content and row count, as the first merge left it.
C3_Idempotent ==
    (mpc = "committed" /\ repeat) => target = snapTarget

\* What an uninterrupted merge transaction makes of table T with staging
\* rows B.
MergeOf(T, B) == InsertAll(DeleteMatching(T, B), B)

\* C18: the merge transaction is atomic: when it fails or the job dies
\* between BEGIN and END the target table holds its pre-merge content, and a
\* later run of the same batch leaves the table as an uninterrupted merge of
\* that batch into the pre-merge content would have.
C18_Atomic ==
    /\ mpc = "rolledback" => target = snapTarget
    /\ (mpc = "committed" /\ retry) => target = MergeOf(snapTarget, frame)

\* C18 witness: the re-run of a batch whose first merge was rolled back has
\* committed and changed the table.
C18_Witness ==
    /\ mpc = "committed"
    /\ retry
    /\ target # snapTarget

\* C19: the staging table source_data.vehicle_sales_temp does not exist
\* once a merge operation has ended, whether it committed or failed.
C19_StagingGone ==
    mpc \in {"committed", "failed", "rolledback"} => ~tempExists

\* No row of B carries the composite key of a row of T.
KeysDisjoint(T, B) ==
    \A t \in BagToSet(T), b \in BagToSet(B) : KeyOf(t) # KeyOf(b)

C30_StagingIsBatch ==
    /\ mpc = "begun" => (tempExists /\ temp = frame)
    /\ mpc = "committed" =>
           \A r \in BagToSet(target) :
               CopiesIn(r, target) <= CopiesIn(r, snapTarget) + CopiesIn(r, frame)

\* C30 witness: a transaction begins for a non-empty batch whose earlier
\* merge was rolled back, which left the staging table with its rows.
C30_Witness ==
    /\ mpc = "begun"
    /\ retry
    /\ frame # EmptyBag

(***************************************************************************)
(* Properties of the delivery run (DeliverySpec).                          *)
(***************************************************************************)

\* Positions of the log with one of the given outcomes.
LogWith(outcomes) == {k \in 1..Len(log) : log[k].outcome \in outcomes}

\* The run has gone through its whole delivery loop.
LoopOver ==
    /\ queried
    /\ ~crashed
    /\ \/ dpc = "loop" /\ i >= Len(events)
       \/ dpc = "done" /\ statusCode = 200

\* C4: an identifier is in the persisted set only if send_event_to_segment
\* returned success for a record carrying it, and no identifier of a record
\* that failed validation or transmission is among those the run writes.
C4_OnlyAfterSuccess ==
    /\ \A id \in s3obj.ids : \E r \in everOk : r.deal_number = id
    /\ \A k \in LogWith({"invalid", "sent_fail"}) :
           log[k].rec.deal_number \notin Range(processed_event_ids)

\* C5: the persisted delivered set only grows: every step, failed reads and
\* writes included, leaves a superset of the set stored before it.
C5_Monotonic == [][s3obj.ids \subseteq s3obj'.ids]_vars

\* C6: no record whose identifier was in the persisted set when the run
\* started is passed to send_event_to_segment in that run.
C6_NoResend ==
    \A k \in LogWith({"sent_ok", "sent_fail"}) :
        log[k].rec.deal_number \notin storedAtStart

\* C7: when a run commits, the persisted set is exactly the set loaded at the
\* start of the run united with the identifiers of the records the run
\* published successfully.
C7_CommitUnion ==
    committed =>
        s3obj.ids = processed_events
                      \cup {log[k].rec.deal_number : k \in LogWith({"sent_ok"})}

\* C8: a transmission failure does not halt the run (every record of the run
\* is handled, in order), it is counted, the failed record's identifier is
\* not among the identifiers the run commits, and the failed record is among
\* the candidates of the next run.
C8_FailureIsolated ==
    /\ LoopOver => /\ Len(log) = Len(events)
                   /\ \A k \in 1..Len(log) : log[k].rec = events[k]
    /\ failed_count = Cardinality(LogWith({"invalid", "sent_fail"}))
    /\ \A k \in LogWith({"sent_fail"}) :
           log[k].rec.deal_number \notin Range(processed_event_ids)
    /\ queried => \A k \in 1..Len(prevRun.log) :
                      prevRun.log[k].outcome = "sent_fail"
                          => prevRun.log[k].rec \in Range(events)

\* A record lacks deal_number, user_id or vin.
MissingRequired(r) == r.deal_number = None \/ r.user_id = None \/ r.vin = None

RECURSIVE OkDeals(_)
\* The deal numbers of the successfully sent entries of a log, in order.
OkDeals(l) ==
    IF l = << >> THEN << >>
    ELSE IF Head(l).outcome = "sent_ok"
         THEN <<Head(l).rec.deal_number>> \o OkDeals(Tail(l))
         ELSE OkDeals(Tail(l))

C10_Redelivery ==
    (prevRun.crashed /\ LoopOver) =>
        \A k \in 1..Len(prevRun.log) :
            prevRun.log[k].outcome = "sent_ok" =>
                \E m \in LogWith({"sent_ok", "sent_fail"}) :
                    /\ log[m].rec = prevRun.log[k].rec
                    /\ log[m].messageId = prevRun.log[k].messageId

\* C17: a delivery run that returns, whichever step failed or returned
\* early, has closed the warehouse connection if it opened one, and nothing
\* of the run executes after the close: a closed run is at its end.
C17_ClosedAtEnd ==
    /\ (dpc = "done" /\ ~crashed /\ opened) => (closed /\ ~conn)
    /\ closed => (dpc = "done" /\ opened)

\* C17 witness: a run that opened a connection and failed has closed it.
C17_Witness ==
    /\ dpc = "done"
    /\ opened
    /\ statusCode = 500
    /\ closed

\* C21: in every delivery run the persisted set is read exactly once,
\* before any record is published, and written at most once, after the last
\* record of the loop; no read or write falls inside the loop.
C21_ReadOnceWriteOnce ==
    queried =>
        /\ reads = 1
        /\ writes <= 1
        /\ dpc = "loop" => writes = 0

\* C23: for a given candidate list and given outcomes per record, what a
\* run sends, counts and commits does not depend on batch_size: once the
\* loop is over the records handled are the candidates, each once and in
\* the order of the list, and the counts and the identifiers are those of
\* the outcomes alone.
C23_BatchSizeIrrelevant ==
    LoopOver =>
        /\ Len(log) = Len(events)
        /\ \A n \in 1..Len(log) : log[n].rec = events[n]
        /\ successful_count = Cardinality(LogWith({"sent_ok"}))
        /\ failed_count = Len(events) - Cardinality(LogWith({"sent_ok"}))
        /\ processed_event_ids = OkDeals(log)
        /\ committed => Range(OkDeals(log)) \subseteq s3obj.ids

\* C23 witness: a run of two candidates in two batches of one has gone
\* through its loop and sent a record.
C23_Witness ==
    /\ LoopOver
    /\ batch_size = 1
    /\ Len(events) = 2
    /\ LogWith({"sent_ok"}) # {}

\* C28: at every point of the loop successful_count + failed_count is the
\* number of records handled so far and processed_event_ids is as long as
\* successful_count; when the loop ends the sum is the number of candidates,
\* and no candidate was handled twice in the run.
C28_Counters ==
    queried =>
        /\ successful_count + failed_count = Len(log)
        /\ Len(processed_event_ids) = successful_count
        /\ (dpc = "loop" /\ i < Len(events)) => successful_count + failed_count = i + j
        /\ LoopOver => successful_count + failed_count = Len(events)
        /\ \A a, b \in 1..Len(log) : a # b => log[a].rec # log[b].rec

\* C28 witness: the loop is between two records, one sent and one failed.
C28_Witness ==
    /\ dpc = "loop"
    /\ successful_count = 1
    /\ failed_count = 1

(***************************************************************************)
(* Properties of the ingestion run (IngestSpec).                           *)
(***************************************************************************)

\* The candidates of the listing: the entries whose name ends in .csv.gpg.
Candidates == {e \in Range(listing) : EndsWithCsvGpg(e.name)}

\* No two candidates carry the same modification time.
DistinctMtimes == \A a, b \in Candidates : a # b => a.st_mtime # b.st_mtime

\* The table whose iteration the loop completed last.
LastTable == required_tables[tableIdx - 1]

\* The files of a table among the downloaded ones.
DownloadedOf(t) == {f \in Range(downloaded_files) : f.table = t}

\* C11: for a table whose listing holds candidates of pairwise distinct
\* modification times, download_files chooses and downloads the candidate of
\* greatest modification time; for a table without a candidate nothing is
\* downloaded and the loop goes on to the next table, so that every table
\* has been handled when the loop is left.
C11_LatestDownloaded ==
    /\ (ipc = "listed" /\ Candidates # {} /\ DistinctMtimes) =>
           \E c \in Candidates :
               /\ \A d \in Candidates : d.st_mtime <= c.st_mtime
               /\ latest_file = c.name
    /\ (ipc = "listed" /\ Candidates = {}) =>
           /\ latest_file = NoFile
           /\ stage[required_tables[tableIdx]] = "skipped"
    /\ (ipc = "download" /\ tableIdx > 1) =>
           /\ stage[LastTable] = "downloaded" => DownloadedOf(LastTable) = {latest_file}
           /\ stage[LastTable] # "downloaded" => DownloadedOf(LastTable) = {}
    /\ (ipc \notin {"idle", "download", "listed"} /\ tableIdx > 1) =>
           \A t \in Range(required_tables) : stage[t] # "pending"

\* C11 witnesses: the later of two candidates was listed first or second and
\* downloaded, after a table without a candidate was passed over.
C11_Witness ==
    /\ ipc = "download"
    /\ tableIdx = 3
    /\ stage["Customer"] = "skipped"
    /\ stage["Vehicle"] = "downloaded"
    /\ latest_file # NoFile

\* C12: when several candidates share the greatest modification time the
\* file chosen is the one of lexicographically greatest name among them,
\* whatever the order of the listing.
C12_TieByFilename ==
    (ipc = "listed" /\ Candidates # {}) =>
        \E c \in Candidates :
            /\ latest_file = c.name
            /\ \A d \in Candidates :
                   \/ d.st_mtime < c.st_mtime
                   \/ d.st_mtime = c.st_mtime /\ LexRank(d.name) <= LexRank(c.name)

\* C13: process_daily_exports returns True only if the upload of at least
\* one file to the staging bucket succeeded in the run.
C13_TrueOnlyIfUploaded ==
    result = "True" => Len(successful_uploads) > 0

\* No candidate was found for the table: its directory held none, or could
\* not be listed.
NoCandidate(t) == stage[t] \in {"skipped", "list_failed"}

\* C14: when no candidate file is found for any table, the run returns
\* False, upload_file is never called and the Glue job is never started.
C14_NothingFound ==
    (tableIdx > Len(required_tables) /\ \A t \in Range(required_tables) : NoCandidate(t)) =>
        /\ ipc = "done" => result = "False"
        /\ uploadCalls = {}
        /\ successful_uploads = << >>
        /\ ~triggered

\* C14 witness: the run ended after three directories without a candidate.
C14_Witness ==
    /\ ipc = "done"
    /\ \A t \in Range(required_tables) : stage[t] = "skipped"
    /\ result = "False"

\* The file of the table was decrypted and reached the upload loop.
PastDecrypt(t) == stage[t] \in {"unmatched", "upload_failed", "staged"}

\* C15: a table that is skipped or fails at listing, download, decryption or
\* upload keeps no other table from its own stages: when the run ends no
\* table is left waiting before a stage, every decrypted file whose name
\* fits the pattern was handed to the upload, a table is staged exactly when
\* its own upload succeeded; and when one decryption failed while another
\* file was decrypted the run returns True.
C15_Isolation ==
    (ipc = "done" /\ tableIdx > 1) =>
        /\ \A t \in Range(required_tables) :
               stage[t] \notin {"pending", "chosen", "downloaded", "decrypted"}
        /\ \A f \in Range(decrypted_files) :
               /\ FilenameMatches(f) => f \in uploadCalls
               /\ stage[f.table] = "staged" <=> S3Key(f) \in Range(successful_uploads)
        /\ (\E t \in Range(required_tables) : PastDecrypt(t)) => result = "True"

\* C15 witness: one decryption failed, the two other tables were staged and
\* the run returned True.
C15_Witness ==
    /\ ipc = "done"
    /\ result = "True"
    /\ \E t \in Range(required_tables) :
           /\ stage[t] = "decrypt_failed"
           /\ \A u \in Range(required_tables) \ {t} : stage[u] = "staged"

\* C16: a file whose decryption failed (result not ok, or an exception) is
\* never handed to upload_file and never appears among the uploaded keys.
C16_FailedNeverUploaded ==
    \A f \in decryptFailed :
        /\ f \notin uploadCalls
        /\ S3Key(f) \notin Range(successful_uploads)

\* C16 witness: a run in which one decryption failed and another file was
\* uploaded.
C16_Witness ==
    /\ ipc = "done"
    /\ decryptFailed # {}
    /\ uploadCalls # {}

(***************************************************************************)
(* Properties of concurrent tracker commits (RaceSpec).                    *)
(***************************************************************************)

\* C20: when two delivery runs of one scope commit concurrently the commits
\* are serialized: once both have written, the persisted set holds every
\* identifier either of them published.
C20_NoLostUpdate ==
    (\A p \in Invocations : cpc[p] = "committed") =>
        \A p \in Invocations : Range(published[p]) \subseteq s3obj.ids

(***************************************************************************)
(* Properties of repeated ingestion runs (IngestSpec).                     *)
(***************************************************************************)

\* The files this run has uploaded.
UploadedNow == {f \in Range(decrypted_files) : stage[f.table] = "staged"}

\* C24: a run that uploads again export files an earlier run uploaded
\* writes them under the keys the earlier run used: when every file the
\* run uploaded had been uploaded by the run before, the bucket holds the
\* objects it held when that run ended.
C24_SameKeyOnRerun ==
    (ipc = "done" /\ ingestRun > 1 /\ UploadedNow \subseteq prevUploads) =>
        bucket = prevBucket

\* C24 witness: a second run has uploaded again a file of the first.
C24_Witness ==
    /\ ipc = "done"
    /\ ingestRun > 1
    /\ UploadedNow # {}
    /\ UploadedNow \subseteq prevUploads

(***************************************************************************)
(* Retry of a failed merge (MergeFairSpec).                                *)
(***************************************************************************)

\* C25: a merge transaction that failed and was rolled back is followed by
\* a job run that merges the same batch again.
C25_FailedMergeRetried == (mpc = "rolledback") ~> retry

(***************************************************************************)
(* Progress of repeated delivery runs (DeliverySpec).                      *)
(***************************************************************************)

\* No two records of the view carry the same deal number.
DistinctDeals ==
    \A a \in view : \A b \in view : a # b => a.deal_number # b.deal_number

\* The records of the view that have their required fields and were never
\* published.
Pending == {r \in view : ~MissingRequired(r) /\ r \notin everOk}

\* C26: repeated runs over a fixed view publish every valid record.  A run
\* that publishes nothing commits nothing and leaves the next run the same
\* page, so the claim needs every run that returns while valid records are
\* unpublished, and in which no transmission failed, to have published at
\* least one record.  Stated for views without shared deal numbers.
C26_RunPublishes ==
    ( /\ dpc = "done"
      /\ ~crashed
      /\ queried
      /\ statusCode = 200
      /\ LogWith({"sent_fail"}) = {}
      /\ DistinctDeals
      /\ Pending # {} ) =>
        LogWith({"sent_ok"}) # {}

\* C27: a record with its required fields is left out of the candidate
\* query only if a record with the same messageId (the same deal_number and
\* vin) was published successfully before the query.
C27_ExcludedOnlyIfPublished ==
    (queried /\ log = << >>) =>
        \A r \in view :
            (~MissingRequired(r) /\ ~NotExcluded(r, processed_events)) =>
                \E o \in everOk :
                    generate_segment_message_id(o) = generate_segment_message_id(r)

\* C29: when the put of the commit fails, the persisted set is the one the
\* run started with, the run returns 200 with its count of successes, and
\* the next run, once through its loop, has sent again every record the
\* run published.
C29_CommitFailure ==
    /\ (dpc = "done" /\ writes = 1 /\ ~committed) =>
           /\ s3obj.ids = storedAtStart
           /\ statusCode = 200
           /\ successful_count = Cardinality(LogWith({"sent_ok"}))
    /\ (prevRun.writeFailed /\ LoopOver) =>
           \A k \in 1..Len(prevRun.log) :
               prevRun.log[k].outcome = "sent_ok" =>
                   \E m \in LogWith({"sent_ok", "sent_fail"}) :
                       log[m].rec = prevRun.log[k].rec

====
